---- MODULE Spec2Model ----
(***************************************************************************)
(* Frame extractor: the concurrent frame pipeline of                       *)
(* frame_extractor_termux_windows.c (and the queue / tracker code it       *)
(* shares with frame_extractor.c).                                         *)
(*                                                                         *)
(* One main thread (setup, producer loop, shutdown), NUM_SAVER_THREADS     *)
(* frame_saver_thread workers, the optional extract_audio_thread, the      *)
(* FrameQueue (ring buffer, one mutex, two condition variables) and the    *)
(* ProgressTracker (one mutex).                                            *)
(*                                                                         *)
(* pthread primitives: a mutex is a variable holding its owner; a thread   *)
(* in pthread_cond_wait has released the mutex and sits at a "*_wait"      *)
(* position until a signal/broadcast (or a spurious wake-up, which POSIX   *)
(* allows) puts it back in front of its loop condition.                    *)
(***************************************************************************)
EXTENDS Integers, Sequences, FiniteSets, TLC

\* ------------------------------------------------------------------ bounds
\* The program's values are 32 and 4; the model runs with smaller ones.
MAX_QUEUE_SIZE == 2
NUM_SAVER_THREADS == 2
\* Frames in the source file.
MaxFrames == 3
\* Packets that yield no frame (other stream, or a decode failure) per run.
MaxJunk == 1
\* Frames whose conversion / write fails per run.
MaxPersistFail == 1

\* ----------------------------------------------------------------- threads
Main == 0
Workers == 1..NUM_SAVER_THREADS
Threads == {Main} \cup Workers
NoThread == -1

VARIABLES
    \* inputs
    config,             \* Config: frames, start_frame, end_frame, step,
                        \* extract_audio
    srcFrames,          \* number of frames the source really holds
    container,          \* codec types of the container's streams, where a
                        \* run fixes them at its start (<<>>: drawn in the scan)
    header,             \* <<h>>: nb_frames, durations, time base and frame
                        \* rate of the video stream, where a run fixes them
                        \* at its start (<<>>: drawn when main reads them)
    ytdl_download,      \* Config.ytdl_download
    audio_only,         \* Config.audio_only
    input,              \* Config.input: a file name, "" when none
    dir,                \* the files named ytdl_* in the working directory
    fetched,            \* the file this run's yt-dlp wrote, "" when none
    times,              \* <<t>>: "-time t" (use_time, time_str); <<t, u>>:
                        \* "-time-range t u" (use_time_range, start_time,
                        \* end_time); <<>>: neither
    \* control
    pc,                 \* position of every thread
    exit_code,          \* process exit code, -1 until main returns
    diag,               \* the error message main printed before returning 1
    \* main's locals
    video_stream_idx, total_frames, start_frame, end_frame,
    frames_to_extract, extract_count,
    current_frame, frames_queued,
    srcPos,             \* source position: index of the next frame decoded
    pkt_left,           \* frames the decoder still holds for the packet
    junk,               \* packets without a frame read so far
    joined,             \* workers main has joined
    audio,              \* extract_audio_thread: "none" | "run" | "ok" | "failed"
    \* FrameQueue
    q_state,            \* "none" | "live" | "destroyed"
    frames, frame_numbers, head, tail, count, done, frames_saved,
    \* worker locals
    w_frame, w_number,  \* out-parameters of queue_pop
    w_tmp,              \* value read by the unlocked frames_saved++
    \* ProgressTracker
    pt_state,           \* "none" | "live" | "destroyed"
    pt_total, frames_processed, progress_mutex,
    pu_inc,             \* frames_inc argument of the running progress_update
    pu_tmp,             \* value read by pt->frames_processed += frames_inc
    pu_ret,             \* where the running progress_update returns to
    \* tracker test threads
    t_k, t_calls,       \* the increment, and the calls each thread has made
    \* history
    pushed,             \* entries in push order: [num, actual]
    popped,             \* frame ids in pop order
    alive,              \* frame copies allocated and not freed
    files,              \* outputs written: [id, num, actual]
    failed,             \* frame ids whose conversion / write failed
    worker_log,         \* frame ids for which a worker printed a diagnostic
    set_done_calls,     \* calls of queue_set_done made so far
    finish_calls,       \* calls of progress_finish made so far
    \* wall time, in ticks
    now,                \* timer_elapsed(pt->start_time)
    last_display_time,  \* ProgressTracker.last_display_time
    renders,            \* progress bars printed so far
    display             \* <<line>>: the progress bar printed last (<<>>: none)

inputs == <<config, srcFrames, container, header, ytdl_download, audio_only,
            input, dir, fetched, times>>
mainv  == <<video_stream_idx, total_frames, start_frame, end_frame,
            frames_to_extract, extract_count, current_frame, frames_queued,
            srcPos, pkt_left, junk, joined>>
qv     == <<q_state, frames, frame_numbers, head, tail, count, done>>
wv     == <<w_frame, w_number, w_tmp, frames_saved>>
ptv    == <<pt_state, pt_total, frames_processed, progress_mutex, pu_inc, pu_tmp,
            pu_ret>>
testv  == <<t_k, t_calls>>
hist   == <<pushed, popped, alive, files>>
calls  == <<set_done_calls, finish_calls>>
errs   == <<failed, worker_log>>
clock  == <<now, last_display_time, renders, display>>
vars   == <<inputs, audio, calls, errs, clock, pc, exit_code, diag, mainv, qv, wv,
            ptv, testv, hist>>

Slots == 0..(MAX_QUEUE_SIZE - 1)
NULL == 0

\* ------------------------------------------------------------ thread moves
Goto(t, p) == pc' = [pc EXCEPT ![t] = p]

\* --------------------------------------------------------------- selection
\* parse_frames_string / -frame, -range, -step as main stores them in Config.
Cfg(fs, s, e, st, a) ==
    [frames |-> fs, start_frame |-> s, end_frame |-> e, step |-> st,
     extract_audio |-> a]
FrameLists ==
    {<<f>> : f \in 0..MaxFrames} \cup
    {<<f, g>> : f \in 0..(MaxFrames - 1), g \in {0, MaxFrames - 1}}
Steps == {0, 1, 2}
ExplicitConfigs == {Cfg(fs, 0, 0, 1, FALSE) : fs \in FrameLists}
RangeConfigs ==
    {Cfg(<<>>, s, e, st, FALSE) :
        s \in 0..(MaxFrames - 1), e \in 0..(MaxFrames - 1), st \in Steps}
\* a range whose end lies behind the last frame of the source
BeyondConfigs == {Cfg(<<>>, 1, MaxFrames, 1, FALSE)}
BothConfigs ==
    {Cfg(fs, r[1], r[2], 1, FALSE) :
        fs \in {<<0, MaxFrames - 1>>, <<1, MaxFrames>>},
        r \in {<<1, MaxFrames>>, <<1, 1>>, <<0, 1>>}}
\* "-audio" next to a frame selection
AudioConfigs ==
    {Cfg(fs, 0, 0, 1, TRUE) : fs \in {<<0>>, <<MaxFrames>>, <<0, MaxFrames - 1>>}}
Configs ==
    ExplicitConfigs \cup RangeConfigs \cup BeyondConfigs \cup BothConfigs
    \cup AudioConfigs

\* Stream lists of the container (codec_type of each stream).
StreamLists == {<<>>, <<"audio">>, <<"video">>, <<"video", "audio">>}

\* main, stream scan: the index kept is the one of the last video stream seen.
RECURSIVE ScanStreams(_, _, _)
ScanStreams(streams, i, idx) ==
    IF i > Len(streams) THEN idx
    ELSE ScanStreams(streams, i + 1,
                     IF streams[i] = "video" THEN i - 1 ELSE idx)

\* main, "-range" handling: a bound of 0 (or less) counts as not given.
RangeGiven(c) == c.start_frame > 0 \/ c.end_frame > 0
RawStart(c) == IF RangeGiven(c) /\ c.start_frame > 0 THEN c.start_frame ELSE 0
RawEnd(c, total) ==
    IF RangeGiven(c) /\ c.end_frame > 0 THEN c.end_frame ELSE total - 1
ClampStart(s) == IF s < 0 THEN 0 ELSE s
\* An end bound that is never clamped.
ClampEndNone(e, total) == e
ClampEnd(e, total) == IF e >= total THEN total - 1 ELSE e

\* main, explicit list: keep config.frames[i] inside [start_frame, end_frame].
RECURSIVE FilterList(_, _, _)
FilterList(fs, lo, hi) ==
    IF fs = <<>> THEN <<>>
    ELSE (IF Head(fs) >= lo /\ Head(fs) <= hi THEN <<Head(fs)>> ELSE <<>>)
         \o FilterList(Tail(fs), lo, hi)

\* main, range: for (f = start_frame; f <= end_frame; f += step), step >= 1.
RECURSIVE RangeList(_, _, _)
RangeList(f, hi, step) ==
    IF f > hi THEN <<>> ELSE <<f>> \o RangeList(f + step, hi, step)

frame_in_list(frame, list, cnt) == \E i \in 1..cnt : list[i] = frame

\* -------------------------------------------------------------------- Init
\* main's locals, the queue, the tracker and the threads before main starts
LocalsUnset ==
    /\ exit_code = -1
    /\ diag = ""
    /\ video_stream_idx = -1
    /\ total_frames = 0
    /\ start_frame = 0
    /\ end_frame = 0
    /\ frames_to_extract = <<>>
    /\ extract_count = 0
    /\ current_frame = 0
    /\ frames_queued = 0
    /\ srcPos = 0
    /\ pkt_left = 0
    /\ junk = 0
    /\ joined = {}
    /\ audio = "none"
    /\ q_state = "none"
    /\ frames = [s \in Slots |-> NULL]
    /\ frame_numbers = [s \in Slots |-> 0]
    /\ head = 0
    /\ tail = 0
    /\ count = 0
    /\ done = 0
    /\ frames_saved = 0
    /\ w_frame = [w \in Workers |-> NULL]
    /\ w_number = [w \in Workers |-> 0]
    /\ w_tmp = [w \in Workers |-> 0]
    /\ pt_state = "none"
    /\ pt_total = 0
    /\ frames_processed = 0
    /\ progress_mutex = NoThread
    /\ pu_inc = [t \in Threads |-> 0]
    /\ pu_tmp = [t \in Threads |-> 0]
    /\ pu_ret = [t \in Threads |-> ""]
    /\ t_k = 0
    /\ t_calls = [w \in Workers |-> 0]
    /\ pushed = <<>>
    /\ popped = <<>>
    /\ alive = {}
    /\ files = {}
    /\ failed = {}
    /\ worker_log = {}
    /\ set_done_calls = 0
    /\ finish_calls = 0
    /\ now = 0
    /\ last_display_time = 0
    /\ renders = 0
    /\ display = <<>>

\* a run on a local file: "-i video.mp4", no "-ytdl", no "-audio-only"
LocalInput ==
    /\ ytdl_download = FALSE
    /\ audio_only = FALSE
    /\ input = "video.mp4"
    /\ dir = {}
    /\ fetched = ""

\* main about to open its local input file
InitLocals ==
    /\ pc = [t \in Threads |-> IF t = Main THEN "open" ELSE "none"]
    /\ LocalInput
    /\ times = <<>>
    /\ LocalsUnset

InitPipeline ==
    /\ container = <<>>
    /\ header = <<>>
    /\ InitLocals

Init ==
    /\ config \in Configs
    /\ srcFrames \in {MaxFrames}
    /\ InitPipeline

\* ------------------------------------------------------------- main: setup
Exit(code) ==
    /\ Goto(Main, "exit")
    /\ exit_code' = code

\* printf of an error, then return 1
Fail(msg) ==
    /\ Exit(1)
    /\ diag' = msg

Continue(p) ==
    /\ Goto(Main, p)
    /\ UNCHANGED <<exit_code, diag>>

\* File names yt-dlp can write for "-o ytdl_%(title)s.%(ext)s", in the order
\* ls prints them.
Names == <<"ytdl_a.mp4", "ytdl_b.mp4">>
NameSet == {Names[i] : i \in 1..Len(Names)}
\* "ls ytdl_* 2>/dev/null | head -1": the first name of the sorted listing
FirstListed(files_there) ==
    Names[CHOOSE i \in 1..Len(Names) :
             /\ Names[i] \in files_there
             /\ \A j \in 1..(i - 1) : Names[j] \notin files_there]

\* download_from_youtube: yt-dlp missing or failing returns 0; else the file
\* is in the directory and config.input is set from the listing
Download ==
    \E ok \in BOOLEAN :
        IF ~ok
        THEN /\ Fail("Download failed")
             /\ UNCHANGED <<input, dir, fetched, audio>>
        ELSE \E name \in NameSet :
                /\ fetched' = name
                /\ dir' = dir \cup {name}
                /\ input' = FirstListed(dir \cup {name})
                /\ IF audio_only
                   THEN audio' \in {"ok", "failed"} /\ Exit(0) /\ UNCHANGED diag
                   ELSE Continue("open") /\ UNCHANGED audio

\* main between option parsing and avformat_open_input: the download, the
\* test for an input file, and "-audio-only"
Start ==
    /\ pc[Main] = "start"
    /\ IF ytdl_download THEN Download
       ELSE /\ UNCHANGED <<input, dir, fetched>>
            /\ IF input = ""
               THEN Fail("usage") /\ UNCHANGED audio
               ELSE IF audio_only
               THEN audio' \in {"ok", "failed"} /\ Exit(0) /\ UNCHANGED diag
               ELSE Continue("open") /\ UNCHANGED audio
    /\ UNCHANGED <<config, srcFrames, container, header, ytdl_download,
                   audio_only, times, calls, errs, clock, testv, mainv, qv, wv, ptv,
                   hist>>

\* avformat_open_input
OpenInput ==
    /\ pc[Main] = "open"
    /\ \E ok \in BOOLEAN :
          IF ok THEN Continue("scan") ELSE Fail("Cannot open file")
    /\ UNCHANGED <<inputs, audio, calls, errs, clock, testv, mainv, qv, wv,
                   ptv, hist>>

\* the result of the scan over a stream list: the index kept, and the
\* "No video stream found" exit
ScanResult(list) ==
    LET idx == ScanStreams(list, 1, -1) IN
    /\ video_stream_idx' = idx
    /\ IF idx = -1 THEN Fail("No video stream found")
       ELSE Continue("count")

\* the stream scan of a pipeline run, over a stream list drawn here
StreamScan ==
    /\ pc[Main] = "scan"
    /\ container = <<>>
    /\ \E list \in StreamLists : ScanResult(list)
    /\ UNCHANGED <<inputs, audio, calls, errs, clock, testv, total_frames,
                   start_frame, end_frame,
                   frames_to_extract, extract_count, current_frame,
                   frames_queued, srcPos, pkt_left, junk, joined,
                   qv, wv, ptv, hist>>

\* AVStream.nb_frames, AVFormatContext.duration (in 1/AV_TIME_BASE s),
\* AVStream.duration (in time_base units), time_base and avg_frame_rate
\* (fractions <<num, den>>)
Hdr(nb, d, sd, tb, fr) ==
    [nb_frames |-> nb, duration |-> d, stream_duration |-> sd,
     time_base |-> tb, avg_frame_rate |-> fr]
AV_TIME_BASE == 1000000
\* a duration that is not known (AV_NOPTS_VALUE is negative)
NoDuration == 0 - 1
\* what the header of a source of n frames can say: the count, no count but
\* one of the two durations, or neither
SourceHeaders(n) ==
    {Hdr(n, n * AV_TIME_BASE, n, <<1, 1>>, <<1, 1>>),
     Hdr(0, n * AV_TIME_BASE, NoDuration, <<1, 1>>, <<1, 1>>),
     Hdr(0, NoDuration, n, <<1, 1>>, <<1, 1>>),
     Hdr(0, NoDuration, NoDuration, <<1, 1>>, <<1, 1>>)}

\* A fallback that asks the stream before the container.
DurationStreamFirst(h) ==
    IF h.stream_duration > 0
    THEN <<h.stream_duration * h.time_base[1], h.time_base[2]>>
    ELSE IF h.duration > 0 THEN <<h.duration, AV_TIME_BASE>>
    ELSE <<0, 1>>
\* duration in seconds, as a fraction: fmt_ctx->duration / AV_TIME_BASE when
\* it is > 0, else video_stream->duration * time_base when that is > 0, else 0
Duration(h) ==
    IF h.duration > 0 THEN <<h.duration, AV_TIME_BASE>>
    ELSE IF h.stream_duration > 0
    THEN <<h.stream_duration * h.time_base[1], h.time_base[2]>>
    ELSE <<0, 1>>

\* A conversion that cuts the fraction off instead of rounding up.
Truncated(n, d) == n \div d
\* (int)ceil(n / d) for n >= 0, d > 0
Ceil(n, d) == (n + d - 1) \div d

\* total_frames: nb_frames, or ceil(duration * fps) when nb_frames <= 0
CountFrames(h) ==
    IF h.nb_frames > 0 THEN h.nb_frames
    ELSE Ceil(Duration(h)[1] * h.avg_frame_rate[1],
              Duration(h)[2] * h.avg_frame_rate[2])

\* lines 858-888 for a given header
FrameCountResult(h) ==
    IF h.nb_frames <= 0 /\ Duration(h)[1] <= 0
    THEN Fail("Cannot determine video duration") /\ UNCHANGED total_frames
    ELSE /\ total_frames' = CountFrames(h)
         /\ Continue("select")

\* nb_frames of the header, or the duration fallback when it is absent
FrameCount ==
    /\ pc[Main] = "count"
    /\ header = <<>>
    /\ \E h \in SourceHeaders(srcFrames) : FrameCountResult(h)
    /\ UNCHANGED <<inputs, audio, calls, errs, clock, testv, video_stream_idx,
                   start_frame,
                   end_frame,
                   frames_to_extract, extract_count, current_frame,
                   frames_queued, srcPos, pkt_left, junk, joined,
                   qv, wv, ptv, hist>>

\* A selection test that lets the empty target set through.
NeverEmpty(cnt) == FALSE

\* if (extract_count == 0) { printf("No frames to extract"); return 1; }
EmptySelection(cnt) == cnt = 0

\* A time as typed: the whole numbers between the colons, and the digits
\* behind the decimal point (<<>>: no decimal point)
Timestamp(fs, ds) == [fields |-> fs, frac |-> ds]
\* the number a string of decimal digits is read as
RECURSIVE DigitsValue(_)
DigitsValue(ds) ==
    IF ds = <<>> THEN 0
    ELSE 10 * DigitsValue(SubSeq(ds, 1, Len(ds) - 1)) + ds[Len(ds)]
RECURSIVE Pow10(_)
Pow10(k) == IF k = 0 THEN 1 ELSE 10 * Pow10(k - 1)

\* parse_time_to_frame, seconds as a fraction <<num, den>>:
\* sscanf "%d:%d:%d.%lf" == 4: h * 3600 + m * 60 + s + ms, where %lf reads
\* the digits behind the point as a number of their own;
\* sscanf "%d:%d:%d" == 3: h * 3600 + m * 60 + s;
\* sscanf "%d:%d" == 2: m * 60 + s (anything behind s is not read);
\* else atof(time_str)
Seconds(t) ==
    LET f == t.fields
    IN IF Len(f) = 3 /\ t.frac # <<>>
       THEN <<f[1] * 3600 + f[2] * 60 + f[3] + DigitsValue(t.frac), 1>>
       ELSE IF Len(f) = 3 THEN <<f[1] * 3600 + f[2] * 60 + f[3], 1>>
       ELSE IF Len(f) = 2 THEN <<f[1] * 60 + f[2], 1>>
       ELSE <<f[1] * Pow10(Len(t.frac)) + DigitsValue(t.frac),
              Pow10(Len(t.frac))>>
\* return (int)(seconds * fps)
parse_time_to_frame(t, fps) ==
    (Seconds(t)[1] * fps[1]) \div (Seconds(t)[2] * fps[2])

\* av_q2d(video_stream->avg_frame_rate), as a fraction
Fps == IF header = <<>> THEN <<1, 1>> ELSE header[1].avg_frame_rate
\* start_frame and end_frame before clamping: from "-time", from
\* "-time-range", else from "-range"
GivenStart ==
    IF times # <<>> THEN parse_time_to_frame(times[1], Fps)
    ELSE RawStart(config)
GivenEnd(total) ==
    IF times # <<>> THEN parse_time_to_frame(times[Len(times)], Fps)
    ELSE RawEnd(config, total)

\* int frames_to_extract[4096]: the number of slots of the target array,
\* scaled down together with the source lengths
TargetSlots == 8
\* the list loops store without testing extract_count against the array size
Overflows(n) == n > TargetSlots

\* start/end, clamping, frames_to_extract and the "No frames to extract" exit
Select ==
    /\ pc[Main] = "select"
    /\ LET s == ClampStart(GivenStart)
           e == ClampEnd(GivenEnd(total_frames), total_frames)
           frame_count == Len(config.frames)
       IN
       /\ start_frame' = s
       /\ end_frame' = e
       /\ IF frame_count = 0 /\ config.step <= 0 /\ s <= e
          THEN \* f never passes end_frame: the loop runs off frames_to_extract
               /\ Continue("overrun")
               /\ UNCHANGED <<frames_to_extract, extract_count>>
          ELSE LET list == IF frame_count > 0
                           THEN FilterList(config.frames, s, e)
                           ELSE RangeList(s, e, config.step)
               IN IF Overflows(Len(list))
                  THEN \* frames_to_extract[extract_count++] behind the array
                       /\ Continue("overrun")
                       /\ UNCHANGED <<frames_to_extract, extract_count>>
                  ELSE /\ frames_to_extract' = list
                       /\ extract_count' = Len(list)
                       /\ IF EmptySelection(Len(list))
                          THEN Fail("No frames to extract")
                          ELSE Continue("codec")
    /\ UNCHANGED <<inputs, audio, calls, errs, clock, testv, video_stream_idx,
                   total_frames,
                   current_frame,
                   frames_queued, srcPos, pkt_left, junk, joined,
                   qv, wv, ptv, hist>>

\* avcodec_open2
OpenCodec ==
    /\ pc[Main] = "codec"
    /\ \E ok \in BOOLEAN :
          IF ok THEN Continue("seek") ELSE Fail("Failed to open video codec")
    /\ UNCHANGED <<inputs, audio, calls, errs, clock, testv, mainv, qv, wv,
                   ptv, hist>>

\* av_seek_frame(AVSEEK_FLAG_BACKWARD) when start_frame > 0: decoding resumes
\* at a key frame at or before start_frame (frame 0 when the seek fails).
Seek ==
    /\ pc[Main] = "seek"
    /\ IF start_frame > 0
       THEN \E k \in 0..start_frame : srcPos' = k
       ELSE UNCHANGED srcPos
    /\ Goto(Main, "init")
    /\ UNCHANGED <<inputs, audio, calls, errs, clock, exit_code, diag, testv,
                   video_stream_idx,
                   total_frames,
                   start_frame, end_frame, frames_to_extract, extract_count,
                   current_frame, frames_queued, pkt_left, junk, joined,
                   qv, wv, ptv, hist>>

\* queue_init and progress_init
InitQueueAndTracker ==
    /\ pc[Main] = "init"
    /\ q_state' = "live"
    /\ frames' = [s \in Slots |-> NULL]
    /\ frame_numbers' = [s \in Slots |-> 0]
    /\ head' = 0 /\ tail' = 0 /\ count' = 0 /\ done' = 0
    /\ frames_saved' = 0
    /\ pt_state' = "live"
    /\ pt_total' = extract_count
    /\ frames_processed' = 0
    /\ progress_mutex' = NoThread
    /\ Goto(Main, "spawn")
    /\ UNCHANGED <<inputs, audio, calls, errs, clock, exit_code, diag, testv,
                   mainv, w_frame,
                   w_number, w_tmp,
                   pu_inc, pu_tmp, pu_ret, hist>>

\* pthread_create(frame_saver_thread), one worker per iteration
Spawn ==
    /\ pc[Main] = "spawn"
    /\ LET i == CHOOSE w \in Workers :
                  pc[w] = "none" /\ \A v \in Workers : v < w => pc[v] # "none"
       IN pc' = [pc EXCEPT ![i] = "pop",
                           ![Main] = IF i = NUM_SAVER_THREADS THEN "spawn_audio"
                                     ELSE "spawn"]
    /\ UNCHANGED <<inputs, audio, calls, errs, clock, exit_code, diag, testv,
                   mainv, qv, wv, ptv,
                   hist>>

\* if (config.extract_audio) pthread_create(extract_audio_thread)
SpawnAudio ==
    /\ pc[Main] = "spawn_audio"
    /\ audio' = IF config.extract_audio THEN "run" ELSE audio
    /\ Goto(Main, "read")
    /\ UNCHANGED <<inputs, calls, errs, clock, exit_code, diag, testv, mainv,
                   qv, wv, ptv, hist>>

\* extract_audio_thread returns: the transcoder is missing, cannot be started
\* or exits non-zero ("failed"), or it exits with 0 ("ok").  Nothing in the
\* code bounds the time the transcoder takes.
ExtractAudio ==
    /\ audio = "run"
    /\ audio' \in {"ok", "failed"}
    /\ UNCHANGED <<inputs, calls, errs, clock, pc, exit_code, diag, testv,
                   mainv, qv, wv, ptv,
                   hist>>

\* ------------------------------------------------------- pthread primitives
\* Every access to head, tail, count, done and the two arrays is made between
\* pthread_mutex_lock(&q->mutex) and the matching unlock, so a queue operation
\* is one step: q->mutex is free between steps.  A thread that finds its
\* loop condition true releases the mutex in pthread_cond_wait and stays at
\* "pop_wait" / "push_wait"; a signal, a broadcast or a spurious wake-up puts
\* it back in front of the lock, where it tests the condition again.

\* threads blocked in pthread_cond_wait(&q->not_empty) / (&q->not_full)
NotEmptyWaiters == {w \in Workers : pc[w] = "pop_wait"}
NotFullWaiters  == {t \in {Main} : pc[t] = "push_wait"}

\* pthread_cond_signal: one waiter, if there is any; the results are the
\* possible pc functions, given the move p the signalling thread itself makes.
Signalled(waiters, wake, t, p) ==
    IF waiters = {} THEN {[pc EXCEPT ![t] = p]}
    ELSE {[pc EXCEPT ![t] = p, ![w] = wake] : w \in waiters}

\* pthread_cond_broadcast: every waiter
Broadcast(waiters, wake, t, p) ==
    [x \in Threads |-> IF x = t THEN p
                       ELSE IF x \in waiters THEN wake ELSE pc[x]]

\* ------------------------------------------------------------------- queue
\* Variants of the queue's tests and wake-ups, each wrong in one place.
\* A full test that never holds.
QueueNeverFull == FALSE

\* A pop that never waits.
PopNeverWaits == FALSE

\* A full test that also counts the workers' hands as room.
QueueFullLate == count >= MAX_QUEUE_SIZE + NUM_SAVER_THREADS

\* A full test that is late by one entry.
QueueFullOffByOne == count > MAX_QUEUE_SIZE
\* A "no more entries" test that forgets the entries still queued.
DoneFlagOnly == done # 0
\* A pop that takes the newest entry instead of the oldest.
PopSlotNewest == (head + MAX_QUEUE_SIZE - 1) % MAX_QUEUE_SIZE
\* A queue_pop that signals nobody.
PopSignalNone(t, p) == {[pc EXCEPT ![t] = p]}
\* A queue_set_done that wakes one waiter (signal) instead of all (broadcast).
SetDoneWakeOne(t, p) ==
    CHOOSE f \in Signalled(NotEmptyWaiters, "pop", t, p) : TRUE

\* queue_push: while (q->count >= MAX_QUEUE_SIZE) wait
QueueFull == count >= MAX_QUEUE_SIZE
\* queue_pop: while (q->count == 0 && !q->done) wait
PopMustWait == count = 0 /\ done = 0
\* queue_pop: if (q->count == 0 && q->done) return 0
PopIsDone == count = 0 /\ done # 0

\* Slot the next push writes / the next pop reads, and the index after it.
PushSlot == head
PopSlot == tail
\* A ring index that never advances.
NextIndexStuck(i) == i

NextIndex(i) == (i + 1) % MAX_QUEUE_SIZE

\* pthread_cond_signal(&q->not_empty) at the end of queue_push
PushSignal(t, p) == Signalled(NotEmptyWaiters, "pop", t, p)
\* pthread_cond_signal(&q->not_full) at the end of queue_pop
PopSignal(t, p) == Signalled(NotFullWaiters, "push", t, p)
\* pthread_cond_broadcast(&q->not_empty) in queue_set_done
SetDoneWake(t, p) == Broadcast(NotEmptyWaiters, "pop", t, p)

\* ------------------------------------------------------ main: producer loop
\* the selection test of the decode loop
Wanted(f) ==
    /\ f >= start_frame
    /\ f <= end_frame
    /\ (Len(config.frames) = 0 \/ frame_in_list(f, frames_to_extract, extract_count))

\* A decode loop that tests the count only after the whole packet.
AfterFrameOuterBreakOnly(queued, left) ==
    IF left > 0 THEN "recv"
    ELSE IF queued >= extract_count THEN "set_done" ELSE "read"

\* A decode loop that stops one frame short of the count.
AfterFrameEarlyDone(queued, left) ==
    IF queued >= extract_count - 1 THEN "set_done"
    ELSE IF left > 0 THEN "recv" ELSE "read"
\* A decode loop without the two break statements.
AfterFrameNoBreak(queued, left) == IF left > 0 THEN "recv" ELSE "read"

\* where main continues after a decoded frame: the two
\* "if (frames_queued >= extract_count) break", else the inner or outer loop
AfterFrame(queued, left) ==
    IF queued >= extract_count THEN "set_done"
    ELSE IF left > 0 THEN "recv" ELSE "read"

\* av_read_frame returns < 0: the source is exhausted
ReadEOF ==
    /\ pc[Main] = "read"
    /\ srcPos >= srcFrames
    /\ Goto(Main, "set_done")
    /\ UNCHANGED <<inputs, audio, calls, errs, clock, exit_code, diag, testv,
                   mainv, qv, wv, ptv,
                   hist>>

\* a packet of another stream: packet.stream_index != video_stream_idx
ReadOther ==
    /\ pc[Main] = "read"
    /\ junk < MaxJunk
    /\ junk' = junk + 1
    /\ UNCHANGED <<inputs, audio, calls, errs, clock, pc, exit_code, diag,
                   testv, video_stream_idx,
                   total_frames,
                   start_frame, end_frame, frames_to_extract, extract_count,
                   current_frame, frames_queued, srcPos, pkt_left, joined,
                   qv, wv, ptv, hist>>

\* A counter that also counts packets without a frame.
CounterCountsPackets(c) == c + 1

\* A counter that stands still.
CounterStuck(c) == c

\* current_frame++ at the end of the inner loop's body, once per decoded frame
CounterAfterFrame(c) == c + 1

\* current_frame after a packet for which the inner loop is never entered
CounterAfterBadPacket(c) == c

\* a video packet for which avcodec_receive_frame gives no frame
ReadBadPacket ==
    /\ pc[Main] = "read"
    /\ junk < MaxJunk
    /\ junk' = junk + 1
    /\ pkt_left' = 0
    /\ current_frame' = CounterAfterBadPacket(current_frame)
    /\ UNCHANGED <<inputs, audio, calls, errs, clock, pc, exit_code, diag,
                   testv, video_stream_idx, total_frames, start_frame,
                   end_frame, frames_to_extract, extract_count,
                   frames_queued, srcPos, joined, qv, wv, ptv, hist>>

\* a video packet from which the decoder gives one or two frames
ReadVideo ==
    /\ pc[Main] = "read"
    /\ srcPos < srcFrames
    /\ \E k \in {1, 2} :
          /\ k <= srcFrames - srcPos
          /\ pkt_left' = k
    /\ Goto(Main, "recv")
    /\ UNCHANGED <<inputs, audio, calls, errs, clock, exit_code, diag, testv,
                   video_stream_idx,
                   total_frames,
                   start_frame, end_frame, frames_to_extract, extract_count,
                   current_frame, frames_queued, srcPos, junk, joined,
                   qv, wv, ptv, hist>>

\* avcodec_receive_frame == 0 and the selection test fails: current_frame++
ReceiveSkip ==
    /\ pc[Main] = "recv"
    /\ ~Wanted(current_frame)
    /\ srcPos' = srcPos + 1
    /\ pkt_left' = pkt_left - 1
    /\ current_frame' = CounterAfterFrame(current_frame)
    /\ Goto(Main, AfterFrame(frames_queued, pkt_left - 1))
    /\ UNCHANGED <<inputs, audio, calls, errs, clock, exit_code, diag, testv,
                   video_stream_idx,
                   total_frames,
                   start_frame, end_frame, frames_to_extract, extract_count,
                   frames_queued, junk, joined, qv, wv, ptv, hist>>

\* avcodec_receive_frame == 0 and the frame is wanted: call queue_push
ReceiveWanted ==
    /\ pc[Main] = "recv"
    /\ Wanted(current_frame)
    /\ srcPos' = srcPos + 1
    /\ pkt_left' = pkt_left - 1
    /\ Goto(Main, "push")
    /\ UNCHANGED <<inputs, audio, calls, errs, clock, exit_code, diag, testv,
                   video_stream_idx,
                   total_frames,
                   start_frame, end_frame, frames_to_extract, extract_count,
                   current_frame, frames_queued, junk, joined,
                   qv, wv, ptv, hist>>

\* queue_push finds the queue full: pthread_cond_wait(&q->not_full)
PushWait ==
    /\ pc[Main] = "push"
    /\ QueueFull
    /\ Goto(Main, "push_wait")
    /\ UNCHANGED <<inputs, audio, calls, errs, clock, exit_code, diag, testv,
                   mainv, qv, wv, ptv,
                   hist>>

\* queue_push: store the clone, signal not_empty, unlock; then main's
\* frames_queued++, current_frame++ and the break tests
PushBody ==
    /\ pc[Main] = "push"
    /\ ~QueueFull
    /\ LET id == Len(pushed) + 1 IN
       /\ frames' = [frames EXCEPT ![PushSlot] = id]
       /\ frame_numbers' = [frame_numbers EXCEPT ![PushSlot] = current_frame]
       /\ pushed' = Append(pushed, [num |-> current_frame, actual |-> srcPos - 1])
       /\ alive' = alive \cup {id}
    /\ head' = NextIndex(head)
    /\ count' = count + 1
    /\ frames_queued' = frames_queued + 1
    /\ current_frame' = CounterAfterFrame(current_frame)
    /\ pc' \in PushSignal(Main, AfterFrame(frames_queued + 1, pkt_left))
    /\ UNCHANGED <<inputs, audio, calls, errs, clock, exit_code, diag, testv,
                   video_stream_idx,
                   total_frames,
                   start_frame, end_frame, frames_to_extract, extract_count,
                   srcPos, pkt_left, junk, joined, q_state, tail, done,
                   wv, ptv, popped, files>>

\* A queue_set_done that flips the flag instead of setting it.
DoneToggle(d) == 1 - d

\* the value queue_set_done stores in q->done
DoneValue(d) == 1

\* queue_set_done called by main, which continues at p
QueueSetDone(p) ==
    /\ done' = DoneValue(done)
    /\ set_done_calls' = set_done_calls + 1
    /\ pc' = SetDoneWake(Main, p)
    /\ UNCHANGED <<q_state, frames, frame_numbers, head, tail, count>>

\* queue_set_done: done = 1, broadcast not_empty
SetDone ==
    /\ pc[Main] = "set_done"
    /\ QueueSetDone("join")
    /\ UNCHANGED <<inputs, audio, finish_calls, errs, clock, exit_code, diag,
                   testv, mainv, wv, ptv, hist>>

\* a spurious return of pthread_cond_wait
SpuriousWake(t) ==
    /\ \/ pc[t] = "pop_wait" /\ Goto(t, "pop")
       \/ pc[t] = "push_wait" /\ Goto(t, "push")
    /\ UNCHANGED <<inputs, audio, calls, errs, clock, exit_code, diag, testv,
                   mainv, qv, wv, ptv,
                   hist>>

\* ----------------------------------------------------- frame_saver_thread
\* queue_pop finds the queue empty and not done: pthread_cond_wait(&q->not_empty)
PopWait(w) ==
    /\ pc[w] = "pop"
    /\ PopMustWait
    /\ Goto(w, "pop_wait")
    /\ UNCHANGED <<inputs, audio, calls, errs, clock, exit_code, diag, testv,
                   mainv, qv, wv, ptv,
                   hist>>

\* queue_pop returns 0: the worker leaves its loop and returns
PopDone(w) ==
    /\ pc[w] = "pop"
    /\ ~PopMustWait
    /\ PopIsDone
    /\ Goto(w, "exit")
    /\ UNCHANGED <<inputs, audio, calls, errs, clock, exit_code, diag, testv,
                   mainv, qv, wv, ptv,
                   hist>>

\* queue_pop returns 1: take the entry at tail, signal not_full
PopBody(w) ==
    /\ pc[w] = "pop"
    /\ ~PopMustWait
    /\ ~PopIsDone
    /\ w_frame' = [w_frame EXCEPT ![w] = frames[PopSlot]]
    /\ w_number' = [w_number EXCEPT ![w] = frame_numbers[PopSlot]]
    /\ popped' = Append(popped, frames[PopSlot])
    /\ tail' = NextIndex(tail)
    /\ count' = count - 1
    /\ pc' \in PopSignal(w, "persist")
    /\ UNCHANGED <<inputs, audio, calls, errs, clock, exit_code, diag, testv,
                   mainv, q_state,
                   frames, frame_numbers,
                   head, done, w_tmp, frames_saved, ptv, pushed, alive,
                   files>>

\* frame ids whose conversion / write failed: handled, and no file
Handled == {popped[i] : i \in 1..Len(popped)} \ {w_frame[w] : w \in Workers}
Failed == Handled \ {f.id : f \in files}

\* convert and write the frame (either may fail), av_frame_free, and the read
\* of the unlocked q->frames_saved++ (frame_number is dead from here on)
Persist(w) ==
    /\ pc[w] = "persist"
    /\ \E ok \in BOOLEAN :
          /\ ~ok => Cardinality(Failed) < MaxPersistFail
          /\ files' = IF ok
                      THEN files \cup {[id |-> w_frame[w], num |-> w_number[w],
                                        actual |-> pushed[w_frame[w]].actual]}
                      ELSE files
          /\ failed' = IF ok THEN failed ELSE failed \cup {w_frame[w]}
    /\ alive' = alive \ {w_frame[w]}
    /\ w_frame' = [w_frame EXCEPT ![w] = NULL]
    /\ w_number' = [w_number EXCEPT ![w] = 0]
    /\ w_tmp' = [w_tmp EXCEPT ![w] = frames_saved]
    /\ Goto(w, "inc_write")
    /\ UNCHANGED <<inputs, audio, calls, worker_log, clock, exit_code, diag,
                   testv, mainv, qv, frames_saved, ptv, pushed, popped>>

\* the write of q->frames_saved++, then the call progress_update(progress, 1, 0)
IncWrite(w) ==
    /\ pc[w] = "inc_write"
    /\ frames_saved' = w_tmp[w] + 1
    /\ w_tmp' = [w_tmp EXCEPT ![w] = 0]
    /\ pu_inc' = [pu_inc EXCEPT ![w] = 1]
    /\ pu_ret' = [pu_ret EXCEPT ![w] = "pop"]
    /\ Goto(w, "update")
    /\ UNCHANGED <<inputs, audio, calls, errs, clock, exit_code, diag, testv,
                   mainv, qv, w_frame,
                   w_number,
                   pt_state, pt_total, frames_processed, progress_mutex,
                   pu_tmp, hist>>

\* --------------------------------------------------------- progress_update
\* A lock that does not wait for the owner to release it.
PLockNoWait(t) == progress_mutex' = t
PLock(t) == progress_mutex = NoThread /\ progress_mutex' = t
PUnlock(t) == progress_mutex' = NoThread

\* pthread_mutex_lock(&pt->progress_mutex)
UpdateLock(t) ==
    /\ pc[t] = "update"
    /\ PLock(t)
    /\ Goto(t, "pu_read")
    /\ UNCHANGED <<inputs, audio, calls, errs, clock, exit_code, diag, testv,
                   mainv, qv, wv,
                   pt_state, pt_total,
                   frames_processed, pu_inc, pu_tmp, pu_ret, hist>>

\* pt->frames_processed += frames_inc: the read
UpdateRead(t) ==
    /\ pc[t] = "pu_read"
    /\ pu_tmp' = [pu_tmp EXCEPT ![t] = frames_processed]
    /\ Goto(t, "pu_write")
    /\ UNCHANGED <<inputs, audio, calls, errs, clock, exit_code, diag, testv,
                   mainv, qv, wv,
                   pt_state, pt_total,
                   frames_processed, progress_mutex, pu_inc, pu_ret, hist>>

\* pt->frames_processed += frames_inc: the write
UpdateWrite(t) ==
    /\ pc[t] = "pu_write"
    /\ frames_processed' = pu_tmp[t] + pu_inc[t]
    /\ pu_tmp' = [pu_tmp EXCEPT ![t] = 0]
    /\ Goto(t, "pu_clamp")
    /\ UNCHANGED <<inputs, audio, calls, errs, clock, exit_code, diag, testv,
                   mainv, qv, wv,
                   pt_state, pt_total,
                   progress_mutex, pu_inc, pu_ret, hist>>

\* 0.1 s, in ticks
RenderTicks == 2
\* if ((elapsed - last_display_time) < 0.1 && frames_processed < total_frames)
\*     { unlock; return; }
Throttled(elapsed, last, fp, total) ==
    (elapsed - last) < RenderTicks /\ fp < total

\* percentage, as a fraction: frames_processed / total_frames (0 without a
\* total), and 1 when that is more than 1
Percentage(fp, total) ==
    IF total <= 0 THEN <<0, 1>>
    ELSE IF fp > total THEN <<1, 1>> ELSE <<fp, total>>
\* elapsed > 0.001 s: one tick is more than that, so any tick at all
ElapsedMeasurable(elapsed) == elapsed > 0
\* frames_per_sec, as a fraction in frames per tick: frames_processed /
\* elapsed when elapsed > 0.001, else 0
FramesPerSec(elapsed, fp) ==
    IF ElapsedMeasurable(elapsed) THEN <<fp, elapsed>> ELSE <<0, 1>>
\* if (percentage > 0.01 && frames_per_sec > 0)
EtaComputed(pct, rate) == pct[1] * 100 > pct[2] /\ rate[1] > 0
\* remaining_time, as a fraction in ticks:
\* (total_frames - frames_processed) / frames_per_sec, left at 0 otherwise
RemainingTime(elapsed, fp, total) ==
    LET rate == FramesPerSec(elapsed, fp)
    IN IF EtaComputed(Percentage(fp, total), rate)
       THEN <<(total - fp) * rate[2], rate[1]>>
       ELSE <<0, 1>>
\* the progress bar: the percentage, "Frames: p/t", the rate, and
\* " | ETA: ..." if (remaining_time > 0), <<>> where no ETA is printed
Line(elapsed, fp, total) ==
    [percentage |-> Percentage(fp, total),
     processed |-> fp,
     total |-> total,
     elapsed |-> elapsed,
     eta |-> IF RemainingTime(elapsed, fp, total)[1] > 0
             THEN RemainingTime(elapsed, fp, total) ELSE <<>>]

\* if (frames_processed > total_frames) frames_processed = total_frames;
\* render or not; pthread_mutex_unlock; return
UpdateClamp(t) ==
    /\ pc[t] = "pu_clamp"
    /\ LET fp == IF frames_processed > pt_total THEN pt_total
                 ELSE frames_processed
       IN /\ frames_processed' = fp
          /\ IF Throttled(now, last_display_time, fp, pt_total)
             THEN UNCHANGED <<last_display_time, renders, display>>
             ELSE /\ last_display_time' = now
                  /\ renders' = renders + 1
                  /\ display' = <<Line(now, fp, pt_total)>>
    /\ PUnlock(t)
    /\ pu_inc' = [pu_inc EXCEPT ![t] = 0]
    /\ pu_ret' = [pu_ret EXCEPT ![t] = ""]
    /\ Goto(t, pu_ret[t])
    /\ UNCHANGED <<inputs, audio, calls, errs, now, exit_code, diag, testv,
                   mainv, qv, wv, pt_state, pt_total, pu_tmp, hist>>

\* ---------------------------------------------------------- main: shutdown
\* A join loop that stops one worker short.
AfterJoinSkipLast(i) ==
    IF i >= NUM_SAVER_THREADS - 1 THEN "join_audio" ELSE "join"

\* A join loop that ends after the first worker.
AfterJoinFirst(i) == "join_audio"

\* for (i = 0; i < NUM_SAVER_THREADS; i++): where main goes after joining i
AfterJoin(i) == IF i = NUM_SAVER_THREADS THEN "join_audio" ELSE "join"

\* pthread_join(saver_threads[i]), in index order
Join ==
    /\ pc[Main] = "join"
    /\ LET i == Cardinality(joined) + 1 IN
       /\ pc[i] = "exit"
       /\ joined' = joined \cup {i}
       /\ Goto(Main, AfterJoin(i))
    /\ UNCHANGED <<inputs, audio, calls, errs, clock, exit_code, diag, testv,
                   video_stream_idx, total_frames, start_frame, end_frame,
                   frames_to_extract, extract_count, current_frame,
                   frames_queued, srcPos, pkt_left, junk, qv, wv, ptv, hist>>

\* A main that gives up its summary when the audio thread failed.
AudioFailSkipsFinish(a) == IF a = "failed" THEN "queue_destroy" ELSE "finish"

\* where main continues after pthread_join(audio_thread, NULL): the thread's
\* result is not looked at
AfterJoinAudio(a) == "finish"

\* if (config.extract_audio) pthread_join(audio_thread)
JoinAudio ==
    /\ pc[Main] = "join_audio"
    /\ config.extract_audio => audio \in {"ok", "failed"}
    /\ Goto(Main, AfterJoinAudio(audio))
    /\ UNCHANGED <<inputs, audio, calls, errs, clock, exit_code, diag, testv,
                   mainv, qv, wv, ptv,
                   hist>>

\* A progress_finish that adds half of what is missing.
FinishIncHalf == (pt_total - frames_processed) \div 2
\* The difference progress_finish passes on, with its operands swapped.
FinishIncSwapped == frames_processed - pt_total

\* progress_finish: the frames_inc it passes to progress_update
FinishInc == pt_total - frames_processed

\* progress_finish: progress_update(pt, pt->total_frames - pt->frames_processed, 0)
Finish ==
    /\ pc[Main] = "finish"
    /\ finish_calls' = finish_calls + 1
    /\ pu_inc' = [pu_inc EXCEPT ![Main] = FinishInc]
    /\ pu_ret' = [pu_ret EXCEPT ![Main] = "fin_destroy"]
    /\ Goto(Main, "update")
    /\ UNCHANGED <<inputs, audio, set_done_calls, errs, clock, exit_code, diag,
                   testv, mainv, qv, wv, pt_state, pt_total, frames_processed,
                   progress_mutex, pu_tmp, hist>>

\* progress_finish: the summary and pthread_mutex_destroy
FinishDestroy ==
    /\ pc[Main] = "fin_destroy"
    /\ pt_state' = "destroyed"
    /\ Goto(Main, "queue_destroy")
    /\ UNCHANGED <<inputs, audio, calls, errs, clock, exit_code, diag, testv,
                   mainv, qv, wv,
                   pt_total,
                   frames_processed, progress_mutex, pu_inc, pu_tmp, pu_ret,
                   hist>>

\* A main that reports frames it could not write in its exit code.
ReturnCodeCountsFailures(n) == IF n > 0 THEN 1 ELSE 0

\* "return 0" at the end of main, whatever number of frames was not written
ReturnCode(n) == 0

\* if (config.ytdl_download) system("rm -f \"<config.input>\"")
Cleanup(files_there) ==
    IF ytdl_download THEN files_there \ {input} ELSE files_there

\* queue_destroy, the removal of the downloaded file and return 0
Teardown ==
    /\ pc[Main] = "queue_destroy"
    /\ q_state' = "destroyed"
    /\ dir' = Cleanup(dir)
    /\ Exit(ReturnCode(Cardinality(failed)))
    /\ UNCHANGED <<config, srcFrames, container, header, ytdl_download,
                   audio_only, input, fetched, times,
                   audio, calls, errs, clock, diag, testv, mainv,
                   frames, frame_numbers,
                   head, tail, count,
                   done, wv, ptv, hist>>

\* -------------------------------------------------------------------- Next
Next ==
    \/ OpenInput
    \/ StreamScan
    \/ FrameCount
    \/ Select
    \/ OpenCodec
    \/ Seek
    \/ InitQueueAndTracker
    \/ Spawn
    \/ SpawnAudio
    \/ ExtractAudio
    \/ ReadEOF
    \/ ReadOther
    \/ ReadBadPacket
    \/ ReadVideo
    \/ ReceiveSkip
    \/ ReceiveWanted
    \/ PushWait
    \/ PushBody
    \/ SetDone
    \/ \E t \in Threads : SpuriousWake(t)
    \/ \E w \in Workers : PopWait(w)
    \/ \E w \in Workers : PopDone(w)
    \/ \E w \in Workers : PopBody(w)
    \/ \E w \in Workers : Persist(w)
    \/ \E w \in Workers : IncWrite(w)
    \/ \E t \in Threads : UpdateLock(t)
    \/ \E t \in Threads : UpdateRead(t)
    \/ \E t \in Threads : UpdateWrite(t)
    \/ \E t \in Threads : UpdateClamp(t)
    \/ Join
    \/ JoinAudio
    \/ Finish
    \/ FinishDestroy
    \/ Teardown

Spec == Init /\ [][Next]_vars

\* ---------------------------------------------------------------- fairness
\* The threads are preemptive OS threads: a thread that can take a step of
\* its own code eventually takes one.  A spurious wake-up is never owed, and
\* neither is the end of the external transcoder the audio thread waits for.
MainNext ==
    \/ OpenInput \/ StreamScan \/ FrameCount \/ Select \/ OpenCodec \/ Seek
    \/ InitQueueAndTracker \/ Spawn \/ SpawnAudio
    \/ ReadEOF \/ ReadOther \/ ReadBadPacket \/ ReadVideo
    \/ ReceiveSkip \/ ReceiveWanted \/ PushWait \/ PushBody \/ SetDone
    \/ UpdateLock(Main) \/ UpdateRead(Main) \/ UpdateWrite(Main)
    \/ UpdateClamp(Main)
    \/ Join \/ JoinAudio \/ Finish \/ FinishDestroy \/ Teardown
WorkerNext(w) ==
    \/ PopWait(w) \/ PopDone(w) \/ PopBody(w) \/ Persist(w) \/ IncWrite(w)
    \/ UpdateLock(w) \/ UpdateRead(w) \/ UpdateWrite(w) \/ UpdateClamp(w)
Fairness == WF_vars(MainNext) /\ \A w \in Workers : WF_vars(WorkerNext(w))

\* Selections of the fair runs: every frame, two frames with a gap, a range
\* that starts after frame 0, a list that names one frame twice, every
\* frame together with "-audio".
LiveConfigs ==
    {Cfg(<<>>, 0, 0, 1, FALSE),
     Cfg(<<0, MaxFrames - 1>>, 0, 0, 1, FALSE),
     Cfg(<<>>, 1, MaxFrames, 1, FALSE),
     Cfg(<<0, 0>>, 0, 0, 1, FALSE),
     Cfg(<<>>, 0, 0, 1, TRUE)}
InitLive ==
    /\ config \in LiveConfigs
    /\ srcFrames = MaxFrames
    /\ InitPipeline
FairSpec == InitLive /\ [][Next]_vars /\ Fairness

\* ------------------------------------------------- tracker under contention
\* T = NUM_SAVER_THREADS threads call progress_update(pt, k, 0), MaxCalls
\* times each, on a tracker initialised with progress_init(pt, total).
MaxCalls == 2
MaxInc == 2
TrackerSum(k) == NUM_SAVER_THREADS * MaxCalls * k

\* a tracker after progress_init, and threads about to call progress_update
TrackerLocals ==
    /\ config = Cfg(<<>>, 0, 0, 1, FALSE)
    /\ srcFrames = 0
    /\ container = <<>>
    /\ header = <<>>
    /\ LocalInput
    /\ times = <<>>
    /\ pc = [t \in Threads |-> IF t = Main THEN "idle" ELSE "t_call"]
    /\ exit_code = -1
    /\ diag = ""
    /\ video_stream_idx = -1
    /\ total_frames = 0
    /\ start_frame = 0
    /\ end_frame = 0
    /\ frames_to_extract = <<>>
    /\ extract_count = 0
    /\ current_frame = 0
    /\ frames_queued = 0
    /\ srcPos = 0
    /\ pkt_left = 0
    /\ junk = 0
    /\ joined = {}
    /\ audio = "none"
    /\ q_state = "none"
    /\ frames = [s \in Slots |-> NULL]
    /\ frame_numbers = [s \in Slots |-> 0]
    /\ head = 0
    /\ tail = 0
    /\ count = 0
    /\ done = 0
    /\ frames_saved = 0
    /\ w_frame = [w \in Workers |-> NULL]
    /\ w_number = [w \in Workers |-> 0]
    /\ w_tmp = [w \in Workers |-> 0]
    /\ pt_state = "live"
    /\ t_k \in 1..MaxInc
    /\ frames_processed = 0
    /\ progress_mutex = NoThread
    /\ pu_inc = [t \in Threads |-> 0]
    /\ pu_tmp = [t \in Threads |-> 0]
    /\ pu_ret = [t \in Threads |-> ""]
    /\ t_calls = [w \in Workers |-> 0]
    /\ pushed = <<>>
    /\ popped = <<>>
    /\ alive = {}
    /\ files = {}
    /\ failed = {}
    /\ worker_log = {}
    /\ set_done_calls = 0
    /\ finish_calls = 0
    /\ now = 0
    /\ last_display_time = 0
    /\ renders = 0
    /\ display = <<>>

\* totals around the sum of all increments
InitTracker ==
    /\ TrackerLocals
    /\ pt_total \in {TrackerSum(t_k) - 1, TrackerSum(t_k), TrackerSum(t_k) + 1}

\* one call progress_update(pt, k, 0) of a test thread
TrackerCall(t) ==
    /\ pc[t] = "t_call"
    /\ t_calls[t] < MaxCalls
    /\ t_calls' = [t_calls EXCEPT ![t] = @ + 1]
    /\ pu_inc' = [pu_inc EXCEPT ![t] = t_k]
    /\ pu_ret' = [pu_ret EXCEPT ![t] = "t_call"]
    /\ Goto(t, "update")
    /\ UNCHANGED <<inputs, audio, calls, errs, clock, exit_code, diag, t_k,
                   mainv, qv, wv, pt_state,
                   pt_total, frames_processed, progress_mutex, pu_tmp, hist>>

TrackerNext ==
    \/ \E t \in Workers : TrackerCall(t)
    \/ \E t \in Workers : UpdateLock(t)
    \/ \E t \in Workers : UpdateRead(t)
    \/ \E t \in Workers : UpdateWrite(t)
    \/ \E t \in Workers : UpdateClamp(t)

SpecTracker == InitTracker /\ [][TrackerNext]_vars

\* ================================================================== claims
\* ------------------------------------------------------------- bounded queue
\* C1: in every state 0 <= count <= MAX_QUEUE_SIZE; a step that stores an
\* entry (queue_push) starts with count < MAX_QUEUE_SIZE, and a step that
\* takes an entry (queue_pop) starts with count > 0.
C1_Occupancy ==
    /\ [](0 <= count /\ count <= MAX_QUEUE_SIZE)
    /\ [][/\ pushed' # pushed => count < MAX_QUEUE_SIZE
          /\ popped' # popped => count > 0]_vars
\* the queue is full and the producer is blocked in queue_push
C1_Witness == count = MAX_QUEUE_SIZE /\ pc[Main] = "push_wait"

\* C2: entries leave the queue in the order they entered it: the i-th
\* successful pop returns the i-th pushed entry, with the frame number that
\* was pushed with it, whichever worker pops and however often head and
\* tail have wrapped around.
C2_Fifo ==
    /\ Len(popped) <= Len(pushed)
    /\ \A i \in 1..Len(popped) : popped[i] = i
    /\ \A w \in Workers :
          w_frame[w] # NULL => w_number[w] = pushed[w_frame[w]].num
\* more entries were popped than the ring has slots, and a worker holds one
C2_Witness ==
    /\ Len(popped) > MAX_QUEUE_SIZE
    /\ \E w \in Workers : w_frame[w] = Len(popped)

\* C3: once done is set no worker stays blocked on not_empty; a worker that
\* tests the loop condition of queue_pop when done is set and the queue is
\* empty leaves with 0 and never waits; and under fair scheduling every
\* worker has then returned from its last queue_pop.
C3_DoneWakesAll ==
    /\ [](done # 0 => NotEmptyWaiters = {})
    /\ [][\A w \in Workers :
             (done # 0 /\ count = 0 /\ pc[w] = "pop" /\ pc'[w] # "pop")
                 => pc'[w] = "exit"]_vars
    /\ (done # 0 /\ count = 0) ~> (\A w \in Workers : pc[w] = "exit")
\* done is set, the queue is empty, one worker has got its 0 and another
\* is about to test the loop condition
C3_Witness ==
    /\ done # 0 /\ count = 0
    /\ \E w \in Workers : pc[w] = "exit"
    /\ \E w \in Workers : pc[w] = "pop"

\* C4: a worker leaves its loop only when done is set and no entry is
\* queued; no entry is popped twice and no two workers hold the same entry;
\* when every worker has left, every pushed entry was popped exactly once
\* and freed.
C4_DrainExactlyOnce ==
    /\ \A w \in Workers : pc[w] = "exit" => (done # 0 /\ count = 0)
    /\ \A i, j \in 1..Len(popped) : popped[i] = popped[j] => i = j
    /\ \A v, w \in Workers :
          (v # w /\ w_frame[v] # NULL) => w_frame[v] # w_frame[w]
    /\ (\A w \in Workers : pc[w] = "exit") =>
          /\ {popped[i] : i \in 1..Len(popped)} = 1..Len(pushed)
          /\ Handled = 1..Len(pushed)
          /\ alive = {}
\* every worker has left after a number of entries that NUM_SAVER_THREADS
\* does not divide
C4_Witness ==
    /\ \A w \in Workers : pc[w] = "exit"
    /\ Len(pushed) > 0
    /\ Len(pushed) % NUM_SAVER_THREADS # 0

\* ------------------------------------------------------------- termination
\* DONE and finalised: every worker joined, progress_finish executed.
PipelineDone == joined = Workers /\ pt_state = "destroyed" /\ exit_code = 0

\* C5, as stated: under fair scheduling of main and the workers every run
\* that has finished setup ends with all workers joined and progress_finish
\* executed.
C5_AsStated == (pc[Main] = "spawn") ~> PipelineDone

\* C5: under fair scheduling of main and the workers, every run that has
\* finished setup gets every worker to return and be joined (the producer
\* is never blocked in queue_push forever, no wake-up is lost); and if the
\* audio thread, when there is one, does not run forever, progress_finish
\* is executed and main returns 0.
C5_Termination ==
    /\ (pc[Main] = "spawn") ~> (joined = Workers)
    /\ []<>(audio # "run") => ((pc[Main] = "spawn") ~> PipelineDone)
\* a finished run in which the producer had to wait for more entries than
\* the queue holds, with an audio thread that ended
C5_Witness ==
    /\ PipelineDone
    /\ Len(pushed) > MAX_QUEUE_SIZE
    /\ audio \in {"ok", "failed"}

\* ------------------------------------------------------- explicit target set
\* the elements of a sequence, and the largest element of a set of numbers
Elements(seq) == {seq[i] : i \in 1..Len(seq)}
Largest(S) == CHOOSE m \in S : \A x \in S : x <= m
\* labels of the outputs written
Labels == {f.num : f \in files}

\* an explicit list of distinct indices that all exist, no range option
ExplicitExisting ==
    /\ Len(config.frames) > 0
    /\ ~RangeGiven(config)
    /\ Cardinality(Elements(config.frames)) = Len(config.frames)
    /\ \A f \in Elements(config.frames) : f >= 0 /\ f < srcFrames

\* C6: for an explicit list of distinct indices that all exist in the
\* source, with no range option: every output is the frame at a target
\* index, labelled with that index, there is one output per label, and when
\* the run has ended without a persist failure the labels are exactly the
\* targets; count never exceeds MAX_QUEUE_SIZE; main never decodes a frame
\* after the one with the largest target index.
C6_ExplicitTargets ==
    ExplicitExisting =>
        /\ \A f \in files : f.num \in Elements(config.frames) /\ f.actual = f.num
        /\ \A f, g \in files : f.num = g.num => f = g
        /\ (exit_code = 0 /\ Failed = {}) => Labels = Elements(config.frames)
        /\ count <= MAX_QUEUE_SIZE
        /\ srcPos <= Largest(Elements(config.frames)) + 1
        /\ done # 0 => srcPos = Largest(Elements(config.frames)) + 1
\* two targets written, and the source not read to its end
C6_Witness ==
    /\ ExplicitExisting
    /\ exit_code = 0
    /\ Cardinality(files) = 2
    /\ Labels = Elements(config.frames)
    /\ srcPos < srcFrames

\* ----------------------------------------------------------- range selection
\* start, start + s, start + 2s, ... <= end
RangeTargets(c) ==
    {f \in c.start_frame..c.end_frame : (f - c.start_frame) % c.step = 0}

\* a range option with start <= end, step >= 1, over a source that holds
\* the frames start..end
RangeExisting ==
    /\ Len(config.frames) = 0
    /\ RangeGiven(config)
    /\ config.step >= 1
    /\ config.start_frame <= config.end_frame
    /\ config.end_frame < srcFrames

\* C7: for a range with start <= end and step >= 1 over a source that holds
\* frames start..end, every output is the frame at the index it is labelled
\* with, and a run that has ended without a persist failure has written
\* exactly the labels start, start + s, ... <= end.
C7_RangeOutputs ==
    RangeExisting =>
        /\ \A f \in files : f.actual = f.num
        /\ (exit_code = 0 /\ Failed = {}) => Labels = RangeTargets(config)

\* ------------------------------------------------------------ setup failures
\* C8: main returns 1 exactly when it has reported a setup failure, and
\* then the queue and the tracker were never initialised, no worker and no
\* audio thread was created, no frame was decoded, queued or written;
\* conversely the pipeline is only started with a video stream found and a
\* target set that is not empty.
C8_SetupFailure ==
    /\ exit_code = 1 <=> diag # ""
    /\ exit_code = 1 =>
          /\ q_state = "none" /\ pt_state = "none"
          /\ \A w \in Workers : pc[w] = "none"
          /\ audio = "none"
          /\ srcPos = 0 /\ pushed = <<>> /\ files = {}
    /\ (q_state # "none" \/ \E w \in Workers : pc[w] # "none") =>
          /\ video_stream_idx # -1
          /\ extract_count > 0
          /\ exit_code # 1
\* main has returned 1 for an empty target set
C8_Witness == exit_code = 1 /\ diag = "No frames to extract"

\* ------------------------------------------------------------------ tracker
\* every test thread has made its MaxCalls calls and returned from the last
TrackerIdle == \A t \in Workers : pc[t] = "t_call" /\ t_calls[t] = MaxCalls

\* C9: NUM_SAVER_THREADS threads call progress_update(+t_k, 0), MaxCalls
\* times each; when the sum of all increments is at most total_frames,
\* frames_processed never exceeds total_frames and is that sum when every
\* call has returned.
C9_AtomicUpdates ==
    TrackerSum(t_k) <= pt_total =>
        /\ frames_processed <= pt_total
        /\ TrackerIdle => frames_processed = TrackerSum(t_k)
\* all calls have returned and the sum is exactly the total
C9_Witness ==
    /\ TrackerIdle
    /\ pt_total = TrackerSum(t_k)
    /\ frames_processed = pt_total

\* C10: in every state of a run 0 <= frames_processed <= total_frames, and
\* no step makes frames_processed smaller.
C10_ProcessedBounded ==
    /\ [](0 <= frames_processed /\ frames_processed <= pt_total)
    /\ [][frames_processed' >= frames_processed]_vars
\* progress_finish has run and had to add frames the workers never handled
C10_Witness ==
    /\ pt_state = "destroyed"
    /\ frames_processed = pt_total
    /\ Len(popped) > 0
    /\ Len(popped) < pt_total

\* ---------------------------------------------------------- progress_finish
\* C11: progress_finish is called at most once, only when every worker has
\* returned and been joined; once it has run frames_processed equals
\* total_frames, whatever the workers handled; and a run that returns 0 has
\* called it.
C11_FinishOnce ==
    /\ finish_calls <= 1
    /\ finish_calls = 1 =>
          (joined = Workers /\ \A w \in Workers : pc[w] = "exit")
    /\ pt_state = "destroyed" =>
          (finish_calls = 1 /\ frames_processed = pt_total)
    /\ exit_code = 0 => pt_state = "destroyed"
\* progress_finish has run in a run whose workers never got a frame
C11_Witness ==
    /\ pt_state = "destroyed"
    /\ finish_calls = 1
    /\ pushed = <<>>
    /\ frames_processed = pt_total

\* ------------------------------------------------------------ producer loop
ProducerLoop == {"read", "recv", "push", "push_wait"}

\* C12: inside the decode loop fewer frames than the target set holds have
\* been enqueued; the loop is left with the count reached or with the source
\* exhausted; queue_set_done is called at most once, has been called in
\* every run that got past the loop, and nothing is pushed after it.
C12_ProducerExit ==
    /\ pc[Main] \in ProducerLoop => frames_queued < extract_count
    /\ pc[Main] = "set_done" =>
          \/ frames_queued = extract_count
          \/ srcPos >= srcFrames /\ pkt_left = 0
    /\ set_done_calls <= 1
    /\ set_done_calls = 1 =>
          /\ pc[Main] \notin ProducerLoop \cup {"set_done"}
          /\ done = 1
          /\ Len(pushed) = frames_queued
    /\ exit_code = 0 => set_done_calls = 1
    /\ pc[Main] \in ProducerLoop \cup {"set_done"} => set_done_calls = 0
\* the loop was left with frames of the source still unread, and
\* queue_set_done has been called
C12_Witness ==
    /\ set_done_calls = 1
    /\ frames_queued = extract_count
    /\ srcPos < srcFrames
    /\ Len(pushed) = extract_count

\* ---------------------------------------------------------- pipeline phases
SetupLabels ==
    {"open", "scan", "count", "select", "overrun", "codec", "seek", "init",
     "spawn", "spawn_audio"}

\* the phase main is in: 0 INIT, 1 RUNNING (decode loop up to the call of
\* queue_set_done), 2 DRAINING (join loop), 3 DONE (after the join loop)
Phase ==
    IF pc[Main] \in SetupLabels THEN 0
    ELSE IF pc[Main] \in ProducerLoop \cup {"set_done"} THEN 1
    ELSE IF pc[Main] = "join" THEN 2
    ELSE IF pc[Main] = "exit" /\ exit_code # 0 THEN 0
    ELSE 3

PhaseConsistent ==
    /\ done \in {0, 1}
    /\ Phase = 0 => done = 0
    /\ Phase = 1 => done = 0 /\ \A w \in Workers : pc[w] # "none"
    /\ Phase >= 2 => done = 1
    /\ Phase = 3 => joined = Workers /\ \A w \in Workers : pc[w] = "exit"

PhaseStep ==
    /\ Phase' >= Phase
    /\ done' >= done
    /\ joined \subseteq joined'
    /\ \A w \in Workers :
          /\ pc[w] # "none" => pc'[w] # "none"
          /\ pc[w] = "exit" => pc'[w] = "exit"

\* C13: the phase of a run never decreases; a worker once spawned is never
\* spawned again and once returned never runs again; q->done goes from 0 to
\* 1 and stays 1; and main is past the join loop only with every worker
\* joined.
C13_ForwardOnly == []PhaseConsistent /\ [][PhaseStep]_vars
\* a run that went through all four phases and returned 0
C13_Witness ==
    /\ Phase = 3
    /\ exit_code = 0
    /\ done = 1
    /\ joined = Workers
    /\ Len(popped) > 0

\* ------------------------------------------------------------ frame copies
\* the slots between tail and head, and the frame copies they refer to
LiveSlots == {(tail + k) % MAX_QUEUE_SIZE : k \in 0..(count - 1)}
QueueIds == {frames[s] : s \in LiveSlots}
\* the frame copies held by workers between queue_pop and av_frame_free
HeldIds == {w_frame[w] : w \in Workers} \ {NULL}
Freeing(w) == pc[w] = "persist" /\ pc'[w] # "persist"

OwnedOnce ==
    /\ Cardinality(QueueIds) = count
    /\ QueueIds \cap HeldIds = {}
    /\ \A v, w \in Workers :
          v # w /\ w_frame[v] # NULL => w_frame[v] # w_frame[w]
    /\ \A w \in Workers : w_frame[w] # NULL => pc[w] = "persist"
    /\ alive = QueueIds \cup HeldIds
    /\ alive \cap ({f.id : f \in files} \cup failed) = {}
    /\ joined = Workers => alive = {} /\ count = 0 /\ HeldIds = {}

FreedOnce ==
    /\ \A w \in Workers :
          Freeing(w) => /\ w_frame[w] \in alive
                        /\ alive' = alive \ {w_frame[w]}
                        /\ w_frame'[w] = NULL
    /\ alive \ alive' \subseteq {w_frame[w] : w \in {v \in Workers : Freeing(v)}}
    /\ \A w \in Workers :
          pc[w] = "pop" /\ pc'[w] = "persist" =>
             /\ w_frame'[w] \in QueueIds
             /\ w_frame'[w] \in alive'
             /\ w_frame'[w] \notin {frames[s] : s \in LiveSlots}'

\* C14: every live frame copy is referred to either by exactly one slot
\* between tail and head or by exactly one worker, never both; a worker
\* holds a copy only between its pop and its free; a copy is freed only by
\* the worker holding it, while still live, after the conversion and write;
\* no freed copy is referred to by a live slot or a worker; and with all
\* workers joined no copy is left.
C14_SingleOwner == []OwnedOnce /\ [][FreedOnce]_vars
\* one copy freed, one held by a worker, one still in the queue
C14_Witness ==
    /\ Cardinality(HeldIds) = 1
    /\ count = 1
    /\ Cardinality(alive) = 2
    /\ Len(pushed) = 3

\* ---------------------------------------------------------- queue_push, full
InPush == pc[Main] \in {"push", "push_wait"}

BlockedWhileFull ==
    /\ (InPush /\ count >= MAX_QUEUE_SIZE) =>
          /\ pc'[Main] \in {"push", "push_wait"}
          /\ head' = head
          /\ frames' = frames
          /\ frame_numbers' = frame_numbers
          /\ count' <= count
          /\ pushed' = pushed
          /\ frames_queued' = frames_queued
    /\ pushed' # pushed => count < MAX_QUEUE_SIZE /\ count' = count + 1

\* C15: while main is inside queue_push and the queue holds MAX_QUEUE_SIZE
\* entries, no step lets main leave queue_push, writes a slot, moves head or
\* raises count (only a pop lowers it); an entry is stored only by a step
\* that starts with count below MAX_QUEUE_SIZE.
C15_PushBlocks == [][BlockedWhileFull]_vars
\* main is blocked in queue_push on a full queue
C15_Witness ==
    /\ pc[Main] = "push_wait"
    /\ count = MAX_QUEUE_SIZE
    /\ Len(pushed) = MAX_QUEUE_SIZE

\* ----------------------------------------------------------------- queue_pop
PopReturns(w, p) == pc[w] = "pop" /\ pc'[w] = p

PopResult ==
    \A w \in Workers :
       /\ PopReturns(w, "exit") =>
             /\ done # 0 /\ count = 0
             /\ set_done_calls > 0
             /\ UNCHANGED <<tail, count, popped>>
       /\ PopReturns(w, "persist") =>
             /\ count > 0
             /\ count' = count - 1
             /\ w_frame'[w] = frames[tail]
             /\ popped' = Append(popped, frames[tail])

\* C16: a pop returns 0 only from a state with done set and count = 0, after
\* queue_set_done has been called, and returns an entry only from a state
\* with count > 0, namely the entry at tail; so a worker that has returned
\* left nothing queued, and every entry pushed was delivered before the
\* last worker got 0.
C16_PopAnswers ==
    /\ [][PopResult]_vars
    /\ [](\A w \in Workers : pc[w] = "exit" =>
             /\ done # 0
             /\ count = 0
             /\ Len(popped) = Len(pushed))
\* queue_set_done has been called with an entry still queued, one worker is
\* about to pop it and another has already been given an entry
C16_Witness ==
    /\ done # 0
    /\ count > 0
    /\ \E w \in Workers : pc[w] = "pop"
    /\ \E w \in Workers : pc[w] = "persist"

\* ------------------------------------------------- queue_set_done, repeated
\* Calls of queue_set_done main makes in the repeated-call runs.
MaxSetDoneCalls == 2

\* one more call of queue_set_done by main, made while it waits for workers
SetDoneAgain ==
    /\ pc[Main] = "join"
    /\ set_done_calls < MaxSetDoneCalls
    /\ QueueSetDone("join")
    /\ UNCHANGED <<inputs, audio, finish_calls, errs, clock, exit_code, diag,
                   testv, mainv, wv, ptv, hist>>

\* the runs in which queue_set_done is repeated: every frame of the source
\* (the producer meets a full queue), one frame with the audio thread, and
\* a list the source runs out on
InitSetDone ==
    /\ config \in {Cfg(<<>>, 0, 0, 1, FALSE), Cfg(<<0>>, 0, 0, 1, TRUE),
                   Cfg(<<0, 0>>, 0, 0, 1, FALSE)}
    /\ srcFrames = MaxFrames
    /\ InitPipeline

\* the pipeline with queue_set_done called up to MaxSetDoneCalls times
SpecSetDone == InitSetDone /\ [][Next \/ SetDoneAgain]_vars

SetDoneStep ==
    set_done_calls' # set_done_calls =>
       /\ done' = 1
       /\ UNCHANGED <<head, tail, count, frames, frame_numbers, frames_saved,
                      q_state>>
       /\ set_done_calls >= 1 =>
             /\ done' = done
             /\ \A w \in Workers : pc'[w] = pc[w]

\* C17: every call of queue_set_done leaves done = 1 and leaves head, tail,
\* count, the slots, the frame numbers and frames_saved as they were; a
\* second or later call changes nothing of the queue at all and moves no
\* worker.
C17_SetDoneIdempotent == [][SetDoneStep]_vars
\* queue_set_done has been called twice with an entry still queued
C17_Witness ==
    /\ set_done_calls = MaxSetDoneCalls
    /\ count > 0
    /\ done = 1

\* ------------------------------------------------- packets without a frame
\* the distance between a frame's place in the source and its label
Offset(e) == e.actual - e.num

NoFrameStep ==
    junk' # junk =>
       /\ current_frame' = current_frame
       /\ frames_queued' = frames_queued
       /\ pushed' = pushed
       /\ UNCHANGED <<head, tail, count, frames, frame_numbers, done, srcPos>>
       /\ pc'[Main] = "read"
       /\ exit_code' = exit_code

LabelsUnshifted ==
    /\ \A i, j \in 1..Len(pushed) : Offset(pushed[i]) = Offset(pushed[j])
    /\ (pc[Main] \in {"read", "recv"} /\ pushed # <<>>) =>
          srcPos - current_frame = Offset(pushed[1])

\* C18: a packet that gives no frame leaves current_frame, frames_queued and
\* the queue as they were and leaves main in its decode loop, reading the
\* next packet; and all frames enqueued in a run have labels at one constant
\* distance from their place in the source, with or without such packets in
\* between.
C18_BadPacketSkipped == [][NoFrameStep]_vars /\ []LabelsUnshifted
\* a run with a packet that gave no frame in which every frame of the
\* source was enqueued under its own index
C18_Witness ==
    /\ junk > 0
    /\ Len(pushed) = srcFrames
    /\ \A i \in 1..Len(pushed) :
          pushed[i].num = i - 1 /\ pushed[i].actual = i - 1

\* ------------------------------------------------------- persist failures
\* what holds of a failed conversion or write apart from the log: the copy
\* is freed, the worker goes on, and once all workers have returned every
\* other enqueued frame has its file
FailureSkipped ==
    /\ failed \cap alive = {}
    /\ \A w \in Workers : w_frame[w] \notin failed
    /\ (\A w \in Workers : pc[w] = "exit") =>
          {f.id : f \in files} = (1..Len(pushed)) \ failed

\* C19: every frame whose conversion or write failed has a log entry, its
\* copy is freed, and all other enqueued frames are written by the time the
\* workers have returned.
C19_FailureLogged == failed \subseteq worker_log /\ FailureSkipped

\* --------------------------------------------------------- render throttle
\* Ticks of wall time (50 ms each) a run of the tracker may last.
MaxTime == 4

\* wall time passes
Tick ==
    /\ now < MaxTime
    /\ now' = now + 1
    /\ UNCHANGED <<inputs, audio, calls, errs, last_display_time, renders,
                   display, pc,
                   exit_code, diag, mainv, qv, wv, ptv, testv, hist>>

\* the tracker called by the test threads while time passes
SpecRender == InitTracker /\ [][TrackerNext \/ Tick]_vars

\* a render made by progress_update called from a worker, not from
\* progress_finish, when an earlier render exists
WorkerRender ==
    /\ renders' > renders
    /\ renders > 0
    /\ \E t \in Workers : pc[t] = "pu_clamp" /\ pc'[t] # "pu_clamp"

\* what the throttle does guarantee: a render made while frames_processed
\* is below total_frames comes RenderTicks after the previous one
RenderBelowTotal ==
    [][(renders' > renders /\ frames_processed' < pt_total) =>
          now - last_display_time >= RenderTicks]_vars

\* C20: every render a worker's progress_update makes after an earlier
\* render comes at least 100 ms (RenderTicks) after that render.
C20_RendersThrottled ==
    [][WorkerRender => now - last_display_time >= RenderTicks]_vars

\* -------------------------------------------------------------- audio stage
\* everything but the audio thread's own state
notAudio ==
    <<inputs, calls, errs, clock, pc, exit_code, diag, mainv, qv, wv, ptv,
      testv, hist>>

\* the end of a frame-extraction run whose setup succeeded
FramesDelivered ==
    /\ exit_code = 0
    /\ pt_state = "destroyed"
    /\ q_state = "destroyed"
    /\ frames_processed = pt_total
    /\ joined = Workers
    /\ Len(pushed) = frames_queued
    /\ {f.id : f \in files} = (1..Len(pushed)) \ failed

\* C21: the step in which the audio thread ends, well or badly, changes
\* nothing but the audio thread's state; and a run whose audio thread has
\* failed ends like any other run that got past its setup: exit code 0, the
\* tracker at total_frames, every enqueued frame written that could be.
C21_AudioIsolated ==
    /\ [][audio = "run" /\ audio' # audio => UNCHANGED notAudio]_vars
    /\ []((pc[Main] = "exit" /\ audio # "none") => FramesDelivered)
\* a run returned 0 with its frame written although the audio thread failed
C21_Witness ==
    /\ audio = "failed"
    /\ pc[Main] = "exit"
    /\ exit_code = 0
    /\ files # {}

\* ------------------------------------------------- explicit list and range
BothGiven == Len(config.frames) > 0 /\ RangeGiven(config)
\* the selection has been made: total_frames is known and main is past it
Selected == total_frames > 0 /\ pc[Main] # "select"
\* the bounds of the range option, clamped to the frames of the source
LowBound == IF config.start_frame > 0 THEN config.start_frame ELSE 0
HighBound ==
    IF config.end_frame > 0 /\ config.end_frame <= total_frames - 1
    THEN config.end_frame ELSE total_frames - 1
BoundedExplicit ==
    {i \in Elements(config.frames) : LowBound <= i /\ i <= HighBound}

MaxStreams == 3
StreamTypes == {"video", "audio", "other"}
\* every container with one to MaxStreams streams
Containers == UNION {[1..n -> StreamTypes] : n \in 1..MaxStreams}

InitScan ==
    /\ config = Cfg(<<>>, 0, 0, 1, FALSE)
    /\ srcFrames = MaxFrames
    /\ container \in Containers
    /\ header = <<>>
    /\ InitLocals

\* the stream scan over the container the run started with
ScanGiven ==
    /\ pc[Main] = "scan"
    /\ container # <<>>
    /\ ScanResult(container)
    /\ UNCHANGED <<inputs, audio, calls, errs, clock, testv, total_frames,
                   start_frame, end_frame,
                   frames_to_extract, extract_count, current_frame,
                   frames_queued, srcPos, pkt_left, junk, joined,
                   qv, wv, ptv, hist>>

\* main up to the end of the stream scan
SpecScan == InitScan /\ [][OpenInput \/ ScanGiven]_vars

Scanned == pc[Main] = "count" \/ diag = "No video stream found"
VideoIndexes == {i \in 1..Len(container) : container[i] = "video"}

\* what the scan does guarantee: a video stream is chosen when there is
\* one, and the run ends with exit code 1 when there is none
SomeVideoStream ==
    Scanned =>
       /\ VideoIndexes # {} => video_stream_idx + 1 \in VideoIndexes
       /\ VideoIndexes = {} => exit_code = 1 /\ video_stream_idx = -1

\* C23: after the scan, the stream chosen is the video stream with the
\* lowest index.
C23_FirstVideoStream ==
    (Scanned /\ VideoIndexes # {}) =>
        /\ video_stream_idx + 1 \in VideoIndexes
        /\ \A i \in VideoIndexes : video_stream_idx + 1 <= i

\* ------------------------------------------------------------ frame indices
\* the frame numbers workers are converting and writing right now
Writing == {w \in Workers : pc[w] = "persist"}

\* C24: the entries enqueued in a run carry pairwise different frame
\* numbers; so do the entries in the queue, the frames two workers handle at
\* the same time, and the files written, one after the other or at once.
C24_DistinctIndices ==
    /\ \A i, j \in 1..Len(pushed) : pushed[i].num = pushed[j].num => i = j
    /\ \A s, t \in LiveSlots : frame_numbers[s] = frame_numbers[t] => s = t
    /\ \A v, w \in Writing : w_number[v] = w_number[w] => v = w
    /\ \A w \in Writing : \A f \in files : f.num # w_number[w]
    /\ \A f, g \in files : f.num = g.num => f = g
\* two workers write at the same time, after a file has been written
C24_Witness ==
    /\ Cardinality(Writing) = 2
    /\ files # {}

\* ------------------------------------------------------- init and teardown
\* positions inside a queue operation / inside progress_update
InQueueOp == {"pop", "pop_wait", "push", "push_wait", "set_done"}
InTrackerOp == {"update", "pu_read", "pu_write", "pu_clamp"}
AllReturned == joined = Workers /\ \A w \in Workers : pc[w] = "exit"

LifecycleStep(obj) ==
    obj' # obj =>
       \/ obj = "none" /\ obj' = "live" /\ pc[Main] = "init"
       \/ obj = "live" /\ obj' = "destroyed" /\ AllReturned

ObjectsInUse ==
    /\ q_state # "live" =>
          /\ \A t \in Threads : pc[t] \notin InQueueOp
          /\ \A w \in Workers : pc[w] \in {"none", "exit"}
    /\ pt_state # "live" => \A t \in Threads : pc[t] \notin InTrackerOp
    /\ q_state = "destroyed" => pt_state = "destroyed" /\ AllReturned
    /\ pt_state = "destroyed" => AllReturned

\* C25: the queue and the tracker each go from not initialised to live
\* once, in main's initialisation, and from live to destroyed once, with
\* every worker returned and joined; no thread is inside a queue operation
\* or inside progress_update while the object is not live, and nothing
\* changes a destroyed object.
C25_InitOnceTeardownLast ==
    /\ [][LifecycleStep(q_state) /\ LifecycleStep(pt_state)]_vars
    /\ [][(q_state = "destroyed" => UNCHANGED <<qv, frames_saved>>)
          /\ (pt_state = "destroyed" => UNCHANGED ptv)]_vars
    /\ []ObjectsInUse
\* both objects torn down after a run that used them
C25_Witness ==
    /\ q_state = "destroyed"
    /\ pt_state = "destroyed"
    /\ Len(popped) = MaxFrames
    /\ frames_processed = MaxFrames

\* ------------------------------------------------------------------- stride
\* the run builds its target list from a range: no explicit list given
BuildsRange == Len(config.frames) = 0 /\ total_frames > 0 /\ pc[Main] # "select"

\* C26: in every run that has built a target list from a range the stride
\* was at least 1 and the loop building the list has ended, with at most
\* one index per frame of the source.
C26_StridePositive ==
    BuildsRange =>
        /\ config.step >= 1
        /\ pc[Main] # "overrun"
        /\ extract_count <= total_frames

\* --------------------------------------------------------------- exit codes
\* C27: main returns 0 or 1 and nothing else; it returns 1 only before the
\* queue, the tracker or any thread exists, after printing a diagnostic; it
\* returns 0 only with every worker joined and the queue torn down; and a
\* run that got as far as creating the queue returns 0 when it returns,
\* whatever packets failed to decode, frames failed to be written or
\* targets the source did not hold.
C27_ExitCodes ==
    /\ exit_code \in {-1, 0, 1}
    /\ pc[Main] = "exit" <=> exit_code # -1
    /\ exit_code = 1 =>
          /\ q_state = "none" /\ pt_state = "none" /\ audio = "none"
          /\ \A w \in Workers : pc[w] = "none"
          /\ diag # ""
    /\ exit_code = 0 =>
          /\ AllReturned
          /\ q_state = "destroyed" /\ pt_state = "destroyed"
          /\ diag = ""
    /\ (pc[Main] = "exit" /\ q_state # "none") => exit_code = 0
\* main returned 0 after a packet without a frame, a frame that could not
\* be written and a source that ended before all targets were found
C27_Witness ==
    /\ exit_code = 0
    /\ junk > 0
    /\ failed # {}
    /\ frames_queued < extract_count

\* ------------------------------------------------ pushes and queue_set_done
Pushing == pushed' # pushed
SettingDone == set_done_calls' # set_done_calls

\* C28: no entry is stored once queue_set_done has been called or done is
\* set; queue_set_done is called with main outside queue_push, with as many
\* entries stored as main has counted and with no frame left to enqueue
\* (the count reached or the source at its end); and main is never inside
\* its decode loop with done set.
C28_NoPushAfterDone ==
    /\ [][Pushing => (set_done_calls = 0 /\ done = 0 /\ ~SettingDone)]_vars
    /\ [][SettingDone =>
            /\ pc[Main] = "set_done"
            /\ Len(pushed) = frames_queued
            /\ \/ frames_queued = extract_count
               \/ srcPos >= srcFrames /\ pkt_left = 0]_vars
    /\ []((done # 0 \/ set_done_calls > 0) =>
            (pc[Main] \notin ProducerLoop /\ Len(pushed) = frames_queued))
\* queue_set_done called after the last of several pushes, with the source
\* not yet at its end
C28_Witness ==
    /\ set_done_calls = 1
    /\ done = 1
    /\ Len(pushed) = 2
    /\ srcPos < srcFrames
    /\ pc[Main] = "join"

\* ------------------------------------------------------ frame copies alive
\* A source with one frame more than the queue and the workers can hold.
MemoryFrames == MAX_QUEUE_SIZE + NUM_SAVER_THREADS + 1

\* a run over the long source that extracts every frame
InitMemory ==
    /\ config = Cfg(<<>>, 0, 0, 1, FALSE)
    /\ srcFrames = MemoryFrames
    /\ InitPipeline

\* the steps of such a run: no audio thread, no frame skipped, the count
\* reached before the source ends, and every packet holding a frame
MemoryNext ==
    \/ OpenInput
    \/ StreamScan
    \/ FrameCount
    \/ Select
    \/ OpenCodec
    \/ Seek
    \/ InitQueueAndTracker
    \/ Spawn
    \/ SpawnAudio
    \/ ReadVideo
    \/ ReceiveWanted
    \/ PushWait
    \/ PushBody
    \/ SetDone
    \/ \E t \in Threads : SpuriousWake(t)
    \/ \E w \in Workers : PopWait(w)
    \/ \E w \in Workers : PopDone(w)
    \/ \E w \in Workers : PopBody(w)
    \/ \E w \in Workers : Persist(w)
    \/ \E w \in Workers : IncWrite(w)
    \/ \E t \in Threads : UpdateLock(t)
    \/ \E t \in Threads : UpdateRead(t)
    \/ \E t \in Threads : UpdateWrite(t)
    \/ \E t \in Threads : UpdateClamp(t)
    \/ Join
    \/ JoinAudio
    \/ Finish
    \/ FinishDestroy
    \/ Teardown

SpecMemory == InitMemory /\ [][MemoryNext]_vars

\* C29: the frame copies alive are those in the queue and those in the
\* workers' hands, at most MAX_QUEUE_SIZE of the first and one per worker
\* of the second, so never more than MAX_QUEUE_SIZE + NUM_SAVER_THREADS.
C29_CopiesBounded ==
    /\ Cardinality(alive) = count + Cardinality(HeldIds)
    /\ count <= MAX_QUEUE_SIZE
    /\ Cardinality(HeldIds) <= NUM_SAVER_THREADS
    /\ Cardinality(alive) <= MAX_QUEUE_SIZE + NUM_SAVER_THREADS
\* the bound is reached with the producer blocked on a further frame
C29_Witness ==
    /\ Cardinality(alive) = MAX_QUEUE_SIZE + NUM_SAVER_THREADS
    /\ pc[Main] = "push_wait"
    /\ Len(pushed) < srcFrames

\* ------------------------------------------------------------- frames_saved
\* C30: once every worker has returned and been joined, frames_saved equals
\* the number of entries the workers dequeued.
C30_SavedCount == AllReturned => frames_saved = Len(popped)

\* ------------------------------------------------------------- target total
\* the indices of the source that the selection test of the decode loop accepts
Accepted == {f \in 0..(srcFrames - 1) : Wanted(f)}
\* the target list is built and the run goes on to decode
TargetsBuilt == extract_count > 0 /\ pc[Main] \notin {"select", "overrun"}

\* C31: extract_count equals the number of distinct indices the selection
\* test of the decode loop accepts, for an explicit list (repeated indices
\* included) and for a range with a step; and when main calls progress_finish
\* it has enqueued extract_count frames and progress_finish has 0 to add.
C31_TotalIsAccepted ==
    TargetsBuilt =>
        /\ extract_count = Cardinality(Accepted)
        /\ pc[Main] = "finish" =>
              (frames_queued = extract_count /\ FinishInc = 0)

\* ------------------------------------------------------------ decode order
\* C32: every output is labelled with the zero-based decode-order position
\* in the source of the frame it holds, for every selection, also when the
\* first wanted index is > 0 and main seeks before it decodes and counts.
C32_LabelIsPosition == \A f \in files : f.num = f.actual

\* ------------------------------------------------------------- target array
\* sources of up to one frame more than frames_to_extract has slots
TargetSources == 1..(TargetSlots + 1)
InitTargets ==
    /\ config \in ExplicitConfigs \cup RangeConfigs
    /\ srcFrames \in TargetSources
    /\ InitPipeline
\* main from avformat_open_input to the end of the target list loops
SpecTargets == InitTargets /\ [][OpenInput \/ StreamScan \/ FrameCount \/ Select]_vars

\* C33: for every source length, range and step >= 1 the list loops store at
\* most as many indices as frames_to_extract has slots: no store happens
\* behind the array.
C33_TargetArrayBounded ==
    config.step >= 1 =>
        (pc[Main] # "overrun" /\ Len(frames_to_extract) <= TargetSlots)

\* ------------------------------------------------------ frame count fallback
\* Headers of the fallback runs: durations of 0, 0.5, 1, 1.5 and 2 s, stream
\* durations in ticks of 1 or 1/2 s, and 1, 1.5 and 2 frames per second.
Headers ==
    {Hdr(nb, d * (AV_TIME_BASE \div 2), sd, tb, fr) :
        nb \in {0, MaxFrames}, d \in NoDuration..4, sd \in {NoDuration, 0, 1, 3},
        tb \in {<<1, 1>>, <<1, 2>>}, fr \in {<<1, 1>>, <<3, 2>>, <<2, 1>>}}
InitHeader ==
    /\ config = Cfg(<<>>, 0, 0, 1, FALSE)
    /\ srcFrames = MaxFrames
    /\ container = <<>>
    /\ header \in {<<h>> : h \in Headers}
    /\ InitLocals
\* the frame count of the header the run started with
FrameCountGiven ==
    /\ pc[Main] = "count"
    /\ header # <<>>
    /\ FrameCountResult(header[1])
    /\ UNCHANGED <<inputs, audio, calls, errs, clock, testv, video_stream_idx,
                   start_frame, end_frame, frames_to_extract, extract_count,
                   current_frame, frames_queued, srcPos, pkt_left, junk, joined,
                   qv, wv, ptv, hist>>
SpecHeader ==
    InitHeader /\ [][OpenInput \/ StreamScan \/ FrameCountGiven \/ Select]_vars

\* the header in use reports no frame count
NoCount == header # <<>> /\ header[1].nb_frames <= 0
\* main has left the frame count block with a total
Counted == pc[Main] = "select" \/ total_frames > 0
\* the block has run and ended the run
CountFailed == diag = "Cannot determine video duration"
NoThreadYet ==
    /\ \A w \in Workers : pc[w] = "none"
    /\ audio = "none"
    /\ q_state = "none"
    /\ pt_state = "none"

C34_WitnessUnknown ==
    /\ NoCount
    /\ header[1].duration <= 0
    /\ header[1].stream_duration <= 0
    /\ CountFailed
    /\ exit_code = 1

\* ------------------------------------------------------- percentage and ETA
\* Totals of the display runs: a short run, and runs of which one or two
\* processed frames are at most 1%.
DisplayTotals == {MaxFrames, 100, 200}
InitDisplay ==
    /\ TrackerLocals
    /\ pt_total \in DisplayTotals
\* the tracker called by the test threads while time passes
SpecDisplay == InitDisplay /\ [][TrackerNext \/ Tick]_vars

\* the smaller of two numbers
Min(a, b) == IF a < b THEN a ELSE b

\* C35: every progress bar shows the percentage min(processed/total, 1), and
\* shows an ETA of (total - processed) / rate whenever the rate
\* processed/elapsed is > 0 and frames remain.
C35_PercentAndEta ==
    \A i \in 1..Len(display) :
        LET d == display[i]
        IN /\ d.percentage[1] * d.total
                 = Min(d.processed, d.total) * d.percentage[2]
           /\ (d.elapsed > 0 /\ d.processed > 0 /\ d.total > d.processed) =>
                 /\ d.eta # <<>>
                 /\ d.eta[1] * d.processed
                       = (d.total - d.processed) * d.elapsed * d.eta[2]

\* ---------------------------------------------------------- remote download
\* Runs from the end of option parsing: with "-ytdl" over a working directory
\* that holds any of the ytdl_* files already, or with a local file or none.
InitDownload ==
    /\ config \in {Cfg(<<>>, 0, 0, 1, FALSE), Cfg(<<0>>, 0, 0, 1, TRUE),
                   Cfg(<<0, 0>>, 0, 0, 1, FALSE)}
    /\ srcFrames = MaxFrames
    /\ container = <<>>
    /\ header = <<>>
    /\ ytdl_download \in BOOLEAN
    /\ audio_only \in BOOLEAN
    /\ input \in (IF ytdl_download THEN {""} ELSE {"", "video.mp4"})
    /\ dir \in SUBSET NameSet
    /\ fetched = ""
    /\ times = <<>>
    /\ pc = [t \in Threads |-> IF t = Main THEN "start" ELSE "none"]
    /\ LocalsUnset
SpecDownload == InitDownload /\ [][Start \/ Next]_vars

\* C36: after a download the file main uses as its input is the file this
\* run's downloader wrote, whatever files with the same prefix the working
\* directory held before.
C36_InputIsFetched == fetched # "" => input = fetched

\* C37: when main has returned after a successful download, on any path
\* (pipeline done, audio-only, setup failure), the downloaded file is no
\* longer in the working directory.
C37_FetchedRemoved == (exit_code # -1 /\ fetched # "") => fetched \notin dir

\* ---------------------------------------------------------------- timestamps
\* Times of the conversion runs: S, M:S and H:M:S with and without a decimal
\* fraction, over 1, 1.5 and 2 frames per second.
FieldLists ==
    {<<sec>> : sec \in 0..2} \cup
    {<<m, sec>> : m \in 0..1, sec \in 0..2} \cup
    {<<h, m, sec>> : h \in 0..1, m \in 0..1, sec \in 0..2}
Fractions == {<<>>, <<0>>, <<5>>, <<2, 5>>}
Timestamps == {Timestamp(fs, ds) : fs \in FieldLists, ds \in Fractions}
InitTime ==
    /\ config = Cfg(<<>>, 0, 0, 1, FALSE)
    /\ srcFrames = MaxFrames
    /\ container = <<>>
    /\ header \in {<<Hdr(MaxFrames, NoDuration, NoDuration, <<1, 1>>, fr)>> :
                      fr \in {<<1, 1>>, <<3, 2>>, <<2, 1>>}}
    /\ times \in {<<t>> : t \in Timestamps} \cup
                 {<<Timestamp(<<0>>, <<>>), t>> : t \in Timestamps}
    /\ pc = [t \in Threads |-> IF t = Main THEN "open" ELSE "none"]
    /\ LocalInput
    /\ LocalsUnset
SpecTime ==
    InitTime /\ [][OpenInput \/ StreamScan \/ FrameCountGiven \/ Select]_vars

\* the forms of a timestamp the conversion is stated for: a plain number,
\* M:S, H:M:S and H:M:S.f
StatedForm(t) == Len(t.fields) # 2 \/ t.frac = <<>>
\* 3600H + 60M + S of the fields given
WholeSeconds(fs) ==
    IF Len(fs) = 3 THEN 3600 * fs[1] + 60 * fs[2] + fs[3]
    ELSE IF Len(fs) = 2 THEN 60 * fs[1] + fs[2]
    ELSE fs[1]
\* n = floor(t x fps) for the time t the timestamp denotes: the whole
\* seconds plus the decimal fraction 0.f
IsFloorOfTime(n, t, fps) ==
    LET scale == Pow10(Len(t.frac))
        num == (WholeSeconds(t.fields) * scale + DigitsValue(t.frac)) * fps[1]
        den == scale * fps[2]
    IN n * den <= num /\ num < (n + 1) * den
\* main has converted the times given
Converted == times # <<>> /\ total_frames > 0 /\ pc[Main] # "select"

\* C38: a timestamp is converted to the frame index floor(t x fps), where
\* H:M:S.f denotes 3600H + 60M + S + 0.f, H:M:S denotes 3600H + 60M + S,
\* M:S denotes 60M + S and a plain number denotes itself: start_frame is
\* that index for the first time given.
C38_TimeToFrame ==
    (Converted /\ StatedForm(times[1])) =>
        IsFloorOfTime(start_frame, times[1], Fps)

====
